----------------------------- MODULE Spec2Model -----------------------------
(***************************************************************************)
(* node-messaging-service: startup (configuration, metadata discovery,     *)
(* algorithm policy, store connectivity), the bearer-token auth gate and   *)
(* the two address-book handlers, for both startServer/authMiddleware      *)
(* versions in the source tree:                                            *)
(*   "jwks"   main.ts:17-116, auth.middleware.ts:90-129, config.ts:14-39   *)
(*   "legacy" main.ts:135-226, auth.middleware.ts:18-60, config.ts:57-86   *)
(* Every await of the source is a step boundary: the code between two      *)
(* awaits runs as one action.                                              *)
(***************************************************************************)
EXTENDS Integers, Sequences, FiniteSets, TLC

VARIABLES
    deployment,   \* which startServer/authMiddleware version runs
    env,          \* names of the environment variables that are set
    startup,      \* position of startServer
    exitCode,     \* process exit code, -1 while running
    metadata,     \* response.data of the discovery call (main.ts:32)
    jwksCache,    \* keys held by the remote JWKS client (main.ts:51)
    requests,     \* the requests received so far, in arrival order
    store         \* Firestore: the set of address_book documents

vars == <<deployment, env, startup, exitCode, metadata, jwksCache, requests, store>>

-----------------------------------------------------------------------------
(* Bounds *)

MaxRequests == 2

-----------------------------------------------------------------------------
(* JSON values: a claim, a body field or a document field is a string, a   *)
(* number or undefined.                                                    *)

JStr(s) == [t |-> "string", v |-> s]
JNum == [t |-> "number", v |-> "7"]
Undef == [t |-> "undefined", v |-> ""]

\* JavaScript truthiness, as used by `!x`
Truthy(x) == \/ x.t = "string" /\ x.v # ""
             \/ x.t = "number"

\* typeof x === 'string'
IsString(x) == x.t = "string"

-----------------------------------------------------------------------------
(* Tokens and Authorization headers *)

\* A token as the verifier sees it: its form, the key that signed it,
\* whether the signature matches the content, its validity window, and the
\* payload claims.
Token(form, key, sig, time, sub, email, alias) ==
    [form |-> form, key |-> key, sig |-> sig, time |-> time,
     sub |-> sub, email |-> email, alias |-> alias]

GoodToken(sub) ==
    Token("jwt", "issuer", "good", "valid", JStr(sub), JStr(sub), JStr(sub))

NullTok == Token("none", "none", "none", "none", Undef, Undef, Undef)

\* A header is a sequence of atoms: words, single spaces and tokens.
Word(s) == [w |-> s, tok |-> NullTok]
Space == Word(" ")
Jwt(t) == [w |-> "jwt", tok |-> t]

NoHeader == [present |-> FALSE, parts |-> <<>>]
Header(parts) == [present |-> TRUE, parts |-> parts]
Bearer(t) == Header(<<Word("Bearer"), Space, Jwt(t)>>)

\* The tokens clients present in the full system
TokenA == GoodToken("uA")
TokenB == GoodToken("uB")
ExpiredToken == [TokenA EXCEPT !.time = "expired"]
ForgedToken == [TokenA EXCEPT !.key = "foreign"]

Tokens == {TokenA, TokenB, ExpiredToken, ForgedToken}

Headers ==
    {NoHeader, Header(<<Word("Bearer"), Space, Space, Jwt(TokenA)>>)}
    \cup {Bearer(t) : t \in Tokens}

\* The tokens and headers used to exercise the auth gate alone: every
\* verification failure, every combination of claim shapes, and the
\* malformed header forms.
ClaimShapes(s) == {JStr(s), Undef, JNum}

GateTokens ==
    {Token("jwt", "issuer", "good", "valid", s, e, a) :
        s \in ClaimShapes("uA"), e \in ClaimShapes("uA"), a \in ClaimShapes("uA")}
    \cup {[TokenA EXCEPT !.sub = JStr("")],
          [TokenA EXCEPT !.email = JStr("")],
          [TokenA EXCEPT !.form = "garbage"],
          [TokenA EXCEPT !.key = "foreign"],
          [TokenA EXCEPT !.sig = "tampered"],
          [TokenA EXCEPT !.time = "expired"],
          [TokenA EXCEPT !.time = "notyet"],
          TokenB}

GateHeaders ==
    {NoHeader,
     Header(<<>>),
     Header(<<Word("Bearer")>>),
     Header(<<Word("Bearer"), Space>>),
     Header(<<Word("Bearer"), Space, Space, Jwt(TokenA)>>),
     Header(<<Word("Bearer"), Jwt(TokenA)>>),
     Header(<<Word("bearer"), Space, Jwt(TokenA)>>),
     Header(<<Word("Basic"), Space, Jwt(TokenA)>>),
     Header(<<Jwt(TokenA)>>),
     Header(<<Space, Word("Bearer"), Space, Jwt(TokenA)>>),
     Header(<<Word("Bearer"), Space, Jwt(TokenA), Space, Jwt(ExpiredToken)>>),
     Header(<<Word("Bearer"), Space, Jwt(TokenA), Jwt(TokenB)>>)}
    \cup {Bearer(t) : t \in GateTokens}

\* authHeader.startsWith('Bearer ')
StartsWithBearer(parts) ==
    /\ Len(parts) >= 2
    /\ parts[1] = Word("Bearer")
    /\ parts[2] = Space

\* authHeader.split(' '): the fields between the spaces
RECURSIVE SplitSpace(_)
SplitSpace(parts) ==
    IF \A i \in 1..Len(parts) : parts[i] # Space
    THEN <<parts>>
    ELSE LET k == CHOOSE i \in 1..Len(parts) :
                     /\ parts[i] = Space
                     /\ \A j \in 1..(i - 1) : parts[j] # Space
         IN <<SubSeq(parts, 1, k - 1)>> \o SplitSpace(SubSeq(parts, k + 1, Len(parts)))

\* authHeader.split(' ')[1]; the header starts with 'Bearer ' where this is
\* used, so the element exists
BearerField(parts) == SplitSpace(parts)[2]


-----------------------------------------------------------------------------
(* The token verifier: jose's jwtVerify against the remote key set         *)
(* (auth.middleware.ts:110) and jsonwebtoken's jwt.verify against the      *)
(* shared secret (auth.middleware.ts:34).                                  *)

\* The keys the identity provider publishes
ProviderKeys == {"issuer"}

\* KeysAfterLookup taking the key a token names into the key set
KeysAfterLookupTrusting(cache, tok, fetchOk) ==
    IF tok.form = "jwt" /\ tok.key \notin cache /\ fetchOk
    THEN ProviderKeys \cup {tok.key}
    ELSE cache

\* The key set after the JWKS client served this token: an unknown key is
\* looked up by refetching the key set, and the fetch can fail.
KeysAfterLookup(cache, tok, fetchOk) ==
    IF tok.form = "jwt" /\ tok.key \notin cache /\ fetchOk
    THEN ProviderKeys
    ELSE cache

\* VerifyChecks without the validity window (verification with the expiry
\* check switched off)
VerifyChecksNoExpiry(tok, keys) ==
    IF tok.form # "jwt" THEN "malformed"
    ELSE IF tok.key \notin keys THEN "nokey"
    ELSE IF tok.sig # "good" THEN "badsig"
    ELSE "ok"

\* The checks in the verifier's order; "ok" means the payload is returned.
VerifyChecks(tok, keys) ==
    IF tok.form # "jwt" THEN "malformed"
    ELSE IF tok.key \notin keys THEN "nokey"
    ELSE IF tok.sig # "good" THEN "badsig"
    ELSE IF tok.time = "expired" THEN "expired"
    ELSE IF tok.time = "notyet" THEN "notyet"
    ELSE "ok"

\* jwtVerify(token, jwksClient) / jwt.verify(token, secret) on the token
\* string: a field that is not exactly one token does not parse.
VerifyToken(field, keys) ==
    IF Len(field) = 1 /\ field[1].w = "jwt"
    THEN VerifyChecks(field[1].tok, keys)
    ELSE "malformed"

\* The payload a successful verification returns
PayloadOf(field) == field[1].tok

-----------------------------------------------------------------------------
(* Requests and responses *)

NoUser == [attached |-> FALSE, id |-> Undef, email |-> Undef, alias |-> Undef]
NoContact == [id |-> Undef, email |-> Undef, alias |-> Undef]

\* The answer of the lookup-by-email call a request has received, if any;
\* storeResult likewise records how the request's store call ended
NoLookup == [kind |-> "none", status |-> 0, contact |-> NoContact]

Msg401NoToken == "Unauthorized: No or invalid token provided."
Msg401NoTokenLegacy == "Unauthorized: No token provided."
Msg401Missing == "Unauthorized: Token is missing."
Msg401Invalid == "Unauthorized: Invalid or expired token."
Msg400 == "Email is required."
Msg404 == "User with that email not found."
Msg500List == "An internal error occurred."
Msg500ListLegacy == "An internal error occurred while retrieving the address book."
Msg500Add == "An internal error occurred while adding the contact."
Msg500Express == "Internal Server Error"

\* res.status(code).json({ error: msg })
ErrorResponse(code, msg) == [status |-> code, error |-> msg, contacts |-> {}]

\* res.status(code).json(contacts)
DataResponse(code, contacts) == [status |-> code, error |-> "", contacts |-> contacts]

NewRequest(h, rt, b) ==
    [route |-> rt, header |-> h, rawBody |-> b, pc |-> "gate",
     user |-> NoUser, resp |-> <<>>, lookup |-> NoLookup, storeResult |-> "none",
     verifierCalls |-> 0, lookupCalls |-> 0, storeReads |-> 0, storeWrites |-> 0]

\* The handler or middleware sends a response and ends
Respond(req, r) == [req EXCEPT !.resp = Append(@, r), !.pc = "done"]

-----------------------------------------------------------------------------
(* Firestore (internal/firestore.ts) *)

\* A document path is split at '/': the segments of the identifiers that
\* occur as document paths here
Segments(s) ==
    IF s = "u1/u2" THEN <<"u1", "u2">>
    ELSE IF s = "u1/address_book/u2" THEN <<"u1", "address_book", "u2">>
    ELSE <<s>>

\* The identifier of the document a path names: its last segment
DocumentId(path) == Segments(path)[Len(Segments(path))]

\* collection.doc(x), lines 13 and 43-46: x must be a non-empty string
\* that names a document below the collection, i.e. has an odd number of
\* segments
PathOk(x) == IsString(x) /\ x.v # "" /\ Len(Segments(x.v)) % 2 = 1

\* A document value may not hold undefined
FieldOk(x) == x.t # "undefined"

\* AddressBookOf reading the contact documents of every owner
AddressBookOfAll(docs, ownerId) ==
    {[id |-> d.userId, email |-> d.email, alias |-> d.alias] : d \in docs}

\* getUserAddressBook, lines 14-28: the documents under the owner mapped
\* to contacts
AddressBookOf(docs, ownerId) ==
    {[id |-> d.userId, email |-> d.email, alias |-> d.alias] :
        d \in {x \in docs : x.owner = ownerId /\ Len(Segments(x.docId)) = 1}}

\* SetContact creating a new document on every call instead of replacing
\* the one at the contact's id
SetContactAppend(docs, ownerId, c) ==
    docs \cup {[owner |-> ownerId, docId |-> c.id.v,
                alias |-> c.alias, email |-> c.email, userId |-> c.id]}

\* SetContact writing the fields one by one into an existing document, so
\* that a document can keep the email of an earlier write
SetContactKeepsEmail(docs, ownerId, c) ==
    LET old == {d \in docs : d.owner = ownerId /\ d.docId = c.id.v} IN
    (docs \ old)
    \cup {[owner |-> ownerId, docId |-> c.id.v, alias |-> c.alias,
           email |-> IF old = {} THEN c.email ELSE (CHOOSE d \in old : TRUE).email,
           userId |-> c.id]}

\* SetContact with the collection path built from the contact's id instead
\* of the owner's
SetContactUnderContact(docs, ownerId, c) ==
    {d \in docs : ~(d.owner = c.id.v /\ d.docId = c.id.v)}
    \cup {[owner |-> c.id.v, docId |-> c.id.v,
           alias |-> c.alias, email |-> c.email, userId |-> c.id]}

\* addContactToAddressBook, lines 43-50: set() replaces the document
\* whose path below the owner's address_book is the contact's id, i.e. at
\* authorized_users/{ownerId}/address_book/{contact.id}
SetContact(docs, ownerId, c) ==
    {d \in docs : ~(d.owner = ownerId /\ d.docId = c.id.v)}
    \cup {[owner |-> ownerId, docId |-> c.id.v,
           alias |-> c.alias, email |-> c.email, userId |-> c.id]}

-----------------------------------------------------------------------------
(* Route handlers (main.ts), up to their first await *)

\* express.json() (main.ts:59) parses the body in the jwks version; the
\* legacy version installs no body parser, so req.body is undefined.
ParsedBody(dep, raw) ==
    IF dep = "jwks"
    THEN [defined |-> TRUE, email |-> raw.email]
    ELSE [defined |-> FALSE, email |-> Undef]

\* GET /api/address-book (main.ts:64-73, 164-178), up to the store read
ListStart(dep, req) ==
    IF PathOk(req.user.id)
    THEN [req EXCEPT !.pc = "reading", !.storeReads = @ + 1]
    ELSE Respond(req, ErrorResponse(500,
                 IF dep = "jwks" THEN Msg500List ELSE Msg500ListLegacy))

\* AddStart answering 400 for a missing email without returning, so that
\* the handler goes on to the lookup
AddStartNoReturn(dep, req) ==
    LET body == ParsedBody(dep, req.rawBody) IN
    IF ~body.defined
    THEN Respond(req, ErrorResponse(500, Msg500Add))
    ELSE IF ~Truthy(body.email)
    THEN [Respond(req, ErrorResponse(400, Msg400))
             EXCEPT !.pc = "lookup", !.lookupCalls = @ + 1]
    ELSE [req EXCEPT !.pc = "lookup", !.lookupCalls = @ + 1]

\* POST add-contact (main.ts:75-89, 181-197), up to the provider lookup
AddStart(dep, req) ==
    LET body == ParsedBody(dep, req.rawBody) IN
    IF ~body.defined
    THEN Respond(req, ErrorResponse(500, Msg500Add))
    ELSE IF ~Truthy(body.email)
    THEN Respond(req, ErrorResponse(400, Msg400))
    ELSE [req EXCEPT !.pc = "lookup", !.lookupCalls = @ + 1]

\* next(): the route's handler runs
HandlerStart(dep, req) ==
    IF req.route = "GET" THEN ListStart(dep, req) ELSE AddStart(dep, req)

\* AddAfterLookup without the 404 branch of the catch block
AddAfterLookupNo404(req0, out) ==
    LET req == [req0 EXCEPT !.lookup = out] IN
    IF out.kind = "ok"
    THEN [req EXCEPT !.pc = "writing", !.storeWrites = @ + 1]
    ELSE Respond(req, ErrorResponse(500, Msg500Add))

\* AddAfterLookup answering 404 for every error that carries a response
AddAfterLookupAnyStatus404(req0, out) ==
    LET req == [req0 EXCEPT !.lookup = out] IN
    IF out.kind = "ok"
    THEN [req EXCEPT !.pc = "writing", !.storeWrites = @ + 1]
    ELSE IF out.kind = "status"
    THEN Respond(req, ErrorResponse(404, Msg404))
    ELSE Respond(req, ErrorResponse(500, Msg500Add))

\* The handler after the lookup answered (main.ts:90-101, 199-211)
AddAfterLookup(req0, out) ==
    LET req == [req0 EXCEPT !.lookup = out] IN
    IF out.kind = "ok"
    THEN IF /\ PathOk(req.user.id)
            /\ PathOk(out.contact.id)
            /\ FieldOk(out.contact.alias)
            /\ FieldOk(out.contact.email)
         THEN [req EXCEPT !.pc = "writing", !.storeWrites = @ + 1]
         ELSE Respond(req, ErrorResponse(500, Msg500Add))
    ELSE IF out.kind = "status" /\ out.status = 404
    THEN Respond(req, ErrorResponse(404, Msg404))
    ELSE Respond(req, ErrorResponse(500, Msg500Add))

\* AddAfterWrite answering 201 whether or not the write succeeded
AddAfterWriteAlways201(req0, ok) ==
    LET req == [req0 EXCEPT !.storeResult = IF ok THEN "ok" ELSE "failed"] IN
    Respond(req, DataResponse(201, {req.lookup.contact}))

\* The handler after the store write answered (main.ts:93-101, 202-211)
AddAfterWrite(req0, ok) ==
    LET req == [req0 EXCEPT !.storeResult = IF ok THEN "ok" ELSE "failed"] IN
    IF ok
    THEN Respond(req, DataResponse(201, {req.lookup.contact}))
    ELSE Respond(req, ErrorResponse(500, Msg500Add))

\* The handler after the store read answered (main.ts:67-72, 171-177)
ListAfterRead(dep, req0, docs, ok) ==
    LET req == [req0 EXCEPT !.storeResult = IF ok THEN "ok" ELSE "failed"] IN
    IF ok
    THEN Respond(req, DataResponse(200, AddressBookOf(docs, req.user.id.v)))
    ELSE Respond(req, ErrorResponse(500,
                 IF dep = "jwks" THEN Msg500List ELSE Msg500ListLegacy))

-----------------------------------------------------------------------------
(* The auth gate (internal/auth/auth.middleware.ts) *)

\* !authHeader || !authHeader.startsWith('Bearer ')
HeaderRejected(h) ==
    \/ ~h.present
    \/ h.parts = <<>>
    \/ ~StartsWithBearer(h.parts)

\* The required-claim check of the jwks version (line 112)
ClaimsOk(payload) ==
    /\ IsString(payload.sub)
    /\ Truthy(payload.email)
    /\ Truthy(payload.alias)

\* The required-claim check of the legacy version (line 41)
LegacyClaimsOk(payload) == IsString(payload.sub)

\* req.user = { id: payload.sub, email: payload.email, alias: payload.alias }
Attach(req, payload) ==
    [req EXCEPT !.user = [attached |-> TRUE, id |-> payload.sub,
                          email |-> payload.email, alias |-> payload.alias]]

\* createAuthMiddleware, lines 92-110: up to the await of jwtVerify
AuthEnter(req) ==
    IF HeaderRejected(req.header)
    THEN Respond(req, ErrorResponse(401, Msg401NoToken))
    ELSE IF BearerField(req.header.parts) = <<>>
    THEN Respond(req, ErrorResponse(401, Msg401Missing))
    ELSE [req EXCEPT !.pc = "verifying", !.verifierCalls = @ + 1]

\* AuthResume whose catch block calls next() instead of answering 401
AuthResumeNextOnFailure(dep, req, keys) ==
    LET token == BearerField(req.header.parts) IN
    IF VerifyToken(token, keys) = "ok" /\ ClaimsOk(PayloadOf(token))
    THEN HandlerStart(dep, Attach(req, PayloadOf(token)))
    ELSE HandlerStart(dep, req)

\* AuthResume whose catch block sends the error's own message
AuthResumeLeaksReason(dep, req, keys) ==
    LET token == BearerField(req.header.parts) IN
    IF VerifyToken(token, keys) = "ok" /\ ClaimsOk(PayloadOf(token))
    THEN HandlerStart(dep, Attach(req, PayloadOf(token)))
    ELSE Respond(req, ErrorResponse(401,
                 IF VerifyToken(token, keys) = "ok"
                 THEN "claims" ELSE VerifyToken(token, keys)))

\* createAuthMiddleware, lines 110-127: after jwtVerify settled
AuthResume(dep, req, keys) ==
    LET token == BearerField(req.header.parts) IN
    IF VerifyToken(token, keys) = "ok" /\ ClaimsOk(PayloadOf(token))
    THEN HandlerStart(dep, Attach(req, PayloadOf(token)))
    ELSE Respond(req, ErrorResponse(401, Msg401Invalid))

\* authMiddleware, lines 18-60: jwt.verify is synchronous, so the whole
\* middleware and the start of the handler run in one step
LegacyAuth(dep, e, req) ==
    IF HeaderRejected(req.header)
    THEN Respond(req, ErrorResponse(401, Msg401NoTokenLegacy))
    ELSE IF Len(SplitSpace(req.header.parts)) < 2 \/ "JWT_SECRET" \notin e
    THEN Respond(req, ErrorResponse(500, Msg500Express))
    ELSE LET token == BearerField(req.header.parts)
             called == [req EXCEPT !.verifierCalls = @ + 1]
         IN IF VerifyToken(token, ProviderKeys) = "ok" /\ LegacyClaimsOk(PayloadOf(token))
            THEN HandlerStart(dep, Attach(called, PayloadOf(token)))
            ELSE Respond(called, ErrorResponse(401, Msg401Invalid))

\* The middleware chain of a protected route, up to its first await
AuthGate(dep, e, req) ==
    IF dep = "jwks" THEN AuthEnter(req) ELSE LegacyAuth(dep, e, req)

-----------------------------------------------------------------------------
(* Startup: config.ts and startServer *)

\* The environment variables each version's config.ts reads
EnvVars(dep) ==
    IF dep = "jwks"
    THEN {"PORT", "GCP_PROJECT_ID", "IDENTITY_SERVICE_URL", "INTERNAL_API_KEY"}
    ELSE {"PORT", "GCP_PROJECT_ID", "JWT_SECRET", "IDENTITY_SERVICE_URL"}

\* requiredSecrets without the version's credential
RequiredSecretsNoCredential(dep) == {"GCP_PROJECT_ID", "IDENTITY_SERVICE_URL"}

\* requiredSecrets (config.ts:28-32, 75-79)
RequiredSecrets(dep) ==
    IF dep = "jwks"
    THEN {"GCP_PROJECT_ID", "IDENTITY_SERVICE_URL", "INTERNAL_API_KEY"}
    ELSE {"GCP_PROJECT_ID", "JWT_SECRET", "IDENTITY_SERVICE_URL"}

\* The validation loop of config.ts (lines 34-39, 81-86)
ConfigValid(dep, e) == RequiredSecrets(dep) \subseteq e

RequiredAlg == "RS256"

NoMetadata == [fetched |-> FALSE, algsDefined |-> FALSE, algs |-> <<>>, jwksUri |-> "absent"]

Metadata(defined, algs, uri) ==
    [fetched |-> TRUE, algsDefined |-> defined, algs |-> algs, jwksUri |-> uri]

\* supportedAlgs.includes(requiredAlg)
Includes(list, x) == \E i \in 1..Len(list) : list[i] = x

\* PolicyOk checking only that the list is there
PolicyOkPresenceOnly(md) == md.algsDefined

\* The policy check of main.ts:38
PolicyOk(md) == md.algsDefined /\ Includes(md.algs, RequiredAlg)

\* What the metadata endpoint can answer
AlgLists == {<<>>, <<"HS256">>, <<"HS256", "RS256">>}

DiscoveryOutcomes ==
    {[kind |-> "network", data |-> NoMetadata], [kind |-> "status", data |-> NoMetadata]}
    \cup {[kind |-> "ok", data |-> Metadata(TRUE, a, u)] :
             a \in AlgLists, u \in {"absent", "invalid", "valid"}}
    \cup {[kind |-> "ok", data |-> Metadata(FALSE, <<>>, u)] : u \in {"absent", "valid"}}

\* Module load of config.ts and startServer up to its first await
\* (main.ts:17-30, 135-147)
Boot ==
    /\ startup = "boot"
    /\ IF ~ConfigValid(deployment, env)
       THEN startup' = "exited" /\ exitCode' = 1
       ELSE IF "GCP_PROJECT_ID" \notin env \/ (deployment = "jwks" /\ "IDENTITY_SERVICE_URL" \notin env)
       THEN IF deployment = "jwks"
            THEN startup' = "exited" /\ exitCode' = 1
            ELSE startup' = "returned" /\ exitCode' = exitCode
       ELSE /\ startup' = IF deployment = "jwks" THEN "discovering" ELSE "storecheck"
            /\ exitCode' = exitCode
    /\ UNCHANGED <<deployment, env, metadata, jwksCache, requests, store>>

\* The discovery call settles and the policy check runs (main.ts:30-46)
DiscoveryReturn ==
    /\ startup = "discovering"
    /\ \E out \in DiscoveryOutcomes :
          IF out.kind # "ok"
          THEN startup' = "exited" /\ exitCode' = 1 /\ metadata' = metadata
          ELSE /\ metadata' = out.data
               /\ IF PolicyOk(out.data)
                  THEN startup' = "storecheck" /\ exitCode' = exitCode
                  ELSE startup' = "exited" /\ exitCode' = 1
    /\ UNCHANGED <<deployment, env, jwksCache, requests, store>>

\* db.listCollections() settles; the routes are set up and the server
\* listens (main.ts:46-107, 147-216)
StoreCheckReturn ==
    /\ startup = "storecheck"
    /\ \E ok \in BOOLEAN :
          IF ok /\ (deployment = "jwks" => metadata.jwksUri = "valid")
          THEN startup' = "listening" /\ exitCode' = exitCode
          ELSE startup' = "exited" /\ exitCode' = 1
    /\ UNCHANGED <<deployment, env, metadata, jwksCache, requests, store>>

-----------------------------------------------------------------------------
(* Requests *)

EmailA == "a@example.com"
EmailB == "b@example.com"

\* Request bodies: no email, an empty email, an email
Bodies == {[email |-> Undef], [email |-> JStr("")], [email |-> JStr(EmailA)]}

RequestShapes == {<<"GET", [email |-> Undef]>>} \cup {<<"POST", b>> : b \in Bodies}

\* What the lookup-by-email endpoint can answer
Contact(id, email, alias) == [id |-> id, email |-> email, alias |-> alias]

\* The provider's record of a user can change between two lookups (alias
\* and email together).
ProviderContacts ==
    {Contact(JStr(i), JStr(EmailA), JStr("A")) : i \in {"u1", "u2"}}
    \cup {Contact(JStr(i), JStr(EmailB), JStr("B")) : i \in {"u1", "u2"}}

\* Bodies a 200 answer of the lookup can carry beyond well-formed records:
\* a field missing, an id that is not a string, an id with '/' in it
AnyBodies ==
    ProviderContacts
    \cup {Contact(Undef, JStr(EmailA), JStr("A")),
          Contact(JNum, JStr(EmailA), JStr("A")),
          Contact(JStr("u1"), JStr(EmailA), Undef),
          Contact(JStr("u1"), Undef, JStr("A")),
          Contact(JStr("u1/u2"), JStr(EmailA), JStr("A")),
          Contact(JStr("u1/address_book/u2"), JStr(EmailA), JStr("A"))}

LookupOutcomes ==
    {[kind |-> "network", status |-> 0, contact |-> NoContact],
     [kind |-> "status", status |-> 404, contact |-> NoContact],
     [kind |-> "status", status |-> 500, contact |-> NoContact]}
    \cup {[kind |-> "ok", status |-> 200, contact |-> c] : c \in ProviderContacts}

\* A request enters a protected route
Arrive(h, rt, b) ==
    /\ startup = "listening"
    /\ Len(requests) < MaxRequests
    /\ requests' = Append(requests, AuthGate(deployment, env, NewRequest(h, rt, b)))
    /\ UNCHANGED <<deployment, env, startup, exitCode, metadata, jwksCache, store>>

Receive == \E h \in Headers, sh \in RequestShapes : Arrive(h, sh[1], sh[2])

\* A client that sends its requests one after the other
ReceiveGate ==
    /\ \A i \in 1..Len(requests) : requests[i].pc = "done"
    /\ \E h \in GateHeaders : Arrive(h, "GET", [email |-> Undef])

\* The requests followed to their response when progress is checked
MaxLiveRequests == 1

ReceiveLive ==
    /\ Len(requests) < MaxLiveRequests
    /\ Receive

\* jwtVerify settles (auth.middleware.ts:110)
VerifyReturn ==
    \E i \in 1..Len(requests), fetchOk \in BOOLEAN :
       /\ requests[i].pc = "verifying"
       /\ LET field == BearerField(requests[i].header.parts)
              tok == IF Len(field) = 1 THEN field[1].tok ELSE NullTok
              keys == KeysAfterLookup(jwksCache, tok, fetchOk)
          IN /\ jwksCache' = keys
             /\ requests' = [requests EXCEPT ![i] = AuthResume(deployment, @, keys)]
       /\ UNCHANGED <<deployment, env, startup, exitCode, metadata, store>>

\* The lookup-by-email call settles (main.ts:85, 193)
LookupReturn ==
    \E i \in 1..Len(requests), out \in LookupOutcomes :
       /\ requests[i].pc = "lookup"
       /\ requests' = [requests EXCEPT ![i] = AddAfterLookup(@, out)]
       /\ UNCHANGED <<deployment, env, startup, exitCode, metadata, jwksCache, store>>

\* The lookup-by-email call is answered 200 with any body (main.ts:85-90)
LookupReturnAnyBody ==
    \E i \in 1..Len(requests), c \in AnyBodies :
       /\ requests[i].pc = "lookup"
       /\ requests' = [requests EXCEPT ![i] =
                          AddAfterLookup(@, [kind |-> "ok", status |-> 200,
                                             contact |-> c])]
       /\ UNCHANGED <<deployment, env, startup, exitCode, metadata, jwksCache, store>>

\* The store write settles (firestore.ts:43-50)
StoreWriteReturn ==
    \E i \in 1..Len(requests), ok \in BOOLEAN :
       /\ requests[i].pc = "writing"
       /\ store' = IF ok
                   THEN SetContact(store, requests[i].user.id.v, requests[i].lookup.contact)
                   ELSE store
       /\ requests' = [requests EXCEPT ![i] = AddAfterWrite(@, ok)]
       /\ UNCHANGED <<deployment, env, startup, exitCode, metadata, jwksCache>>

\* The store read settles (firestore.ts:14)
StoreReadReturn ==
    \E i \in 1..Len(requests), ok \in BOOLEAN :
       /\ requests[i].pc = "reading"
       /\ requests' = [requests EXCEPT ![i] = ListAfterRead(deployment, @, store, ok)]
       /\ UNCHANGED <<deployment, env, startup, exitCode, metadata, jwksCache, store>>

-----------------------------------------------------------------------------
(* Specifications *)

Deployments == {"jwks", "legacy"}

InitWith(dep) ==
    /\ deployment = dep
    /\ env = EnvVars(dep)
    /\ startup = "boot"
    /\ exitCode = -1
    /\ metadata = NoMetadata
    /\ jwksCache = {}
    /\ requests = <<>>
    /\ store = {}

Init == \E dep \in Deployments : InitWith(dep)

InitJwks == InitWith("jwks")

Next ==
    \/ Boot
    \/ DiscoveryReturn
    \/ StoreCheckReturn
    \/ Receive
    \/ VerifyReturn
    \/ LookupReturn
    \/ StoreWriteReturn
    \/ StoreReadReturn

NextAnyBody ==
    \/ Boot
    \/ DiscoveryReturn
    \/ StoreCheckReturn
    \/ Receive
    \/ VerifyReturn
    \/ LookupReturnAnyBody
    \/ StoreWriteReturn
    \/ StoreReadReturn

NextLive ==
    \/ Boot
    \/ DiscoveryReturn
    \/ StoreCheckReturn
    \/ ReceiveLive
    \/ VerifyReturn
    \/ LookupReturn
    \/ StoreWriteReturn
    \/ StoreReadReturn

NextGate ==
    \/ Boot
    \/ DiscoveryReturn
    \/ StoreCheckReturn
    \/ ReceiveGate
    \/ VerifyReturn
    \/ StoreReadReturn

\* Startup under every environment: env holds the variables that are set
\* to a non-empty value (an unset and an empty variable read the same in
\* `!config[secret]` and in `process.env.PORT || 3001`).
AllEnvVars == EnvVars("jwks") \cup EnvVars("legacy")

InitEnv ==
    /\ deployment \in Deployments
    /\ env \in SUBSET AllEnvVars
    /\ startup = "boot"
    /\ exitCode = -1
    /\ metadata = NoMetadata
    /\ jwksCache = {}
    /\ requests = <<>>
    /\ store = {}

NextStartup ==
    \/ Boot
    \/ DiscoveryReturn
    \/ StoreCheckReturn

\* Both versions, the full request surface
Spec == Init /\ [][Next]_vars

\* The jwks version alone
SpecJwks == InitJwks /\ [][Next]_vars

\* Both versions from process start to listening or exit, under every
\* environment
SpecEnv == InitEnv /\ [][NextStartup]_vars

\* The full request surface when every outbound call eventually returns or
\* fails
SpecLive ==
    /\ Init /\ [][NextLive]_vars
    /\ WF_vars(Boot)
    /\ WF_vars(DiscoveryReturn)
    /\ WF_vars(StoreCheckReturn)
    /\ WF_vars(VerifyReturn)
    /\ WF_vars(LookupReturn)
    /\ WF_vars(StoreWriteReturn)
    /\ WF_vars(StoreReadReturn)

\* The full request surface with the progress the code's calls guarantee:
\* the key-set fetch of the remote JWKS client and the store client's calls
\* end by their own deadlines; the two axios calls (main.ts:30, 85) are made
\* without a timeout and end only when the provider answers or the
\* connection fails.
SpecFair ==
    /\ Init /\ [][NextLive]_vars
    /\ WF_vars(Boot)
    /\ WF_vars(StoreCheckReturn)
    /\ WF_vars(VerifyReturn)
    /\ WF_vars(StoreWriteReturn)
    /\ WF_vars(StoreReadReturn)

\* The full request surface with a provider whose successful lookup can
\* return any body
SpecAnyBody == Init /\ [][NextAnyBody]_vars

\* Both versions, the auth gate under every header and token form, one
\* request after the other
SpecGate == Init /\ [][NextGate]_vars

-----------------------------------------------------------------------------
(* Properties *)

ReqIds == 1..Len(requests)

\* The status of the response a finished request got
StatusOf(r) == r.resp[1].status

\* The token of a request whose header is 'Bearer ' and one token
HasBearerToken(r) ==
    /\ r.header.present
    /\ StartsWithBearer(r.header.parts)
    /\ Len(BearerField(r.header.parts)) = 1
    /\ BearerField(r.header.parts)[1].w = "jwt"

TokenIn(r) == BearerField(r.header.parts)[1].tok

\* Signature and validity window of a token are good
CryptoValid(tok) ==
    /\ tok.form = "jwt"
    /\ tok.key \in ProviderKeys
    /\ tok.sig = "good"
    /\ tok.time = "valid"

\* The verifier was invoked for the request and the gate rejected it
VerifierFailed(r) == r.verifierCalls > 0 /\ r.pc = "done" /\ ~r.user.attached

\* C1: a store read, a store write or a provider lookup happens for a
\* request only after the auth gate attached an Identity to it; a request
\* answered 401 (in particular one without Authorization header) made no
\* store call and no provider call.
C1_CallsOnlyAfterIdentity ==
    \A i \in ReqIds :
       LET r == requests[i] IN
       /\ (\/ r.storeReads > 0 \/ r.storeWrites > 0 \/ r.lookupCalls > 0
           \/ r.pc \in {"reading", "lookup", "writing"}) => r.user.attached
       /\ (\E k \in 1..Len(r.resp) : r.resp[k].status = 401)
             => r.storeReads = 0 /\ r.storeWrites = 0 /\ r.lookupCalls = 0
       /\ ~r.header.present
             => /\ r.pc = "done" /\ Len(r.resp) = 1 /\ StatusOf(r) = 401
                /\ r.storeReads = 0 /\ r.storeWrites = 0 /\ r.lookupCalls = 0

\* One request without header was answered 401 and another, with an
\* Identity, went through lookup and store write.
C1_Witness ==
    \E i, j \in ReqIds :
       /\ ~requests[i].header.present /\ requests[i].pc = "done"
       /\ StatusOf(requests[i]) = 401
       /\ requests[j].user.attached
       /\ requests[j].lookupCalls = 1 /\ requests[j].storeWrites = 1

\* C2: a request has an Identity attached only if its token is well formed,
\* signed by a key of the provider, untampered and inside its validity
\* window, and the verifier ran for it; the Identity's id is the token's
\* subject.
C2_IdentityOnlyFromVerifiedToken ==
    \A i \in ReqIds :
       LET r == requests[i] IN
       r.user.attached =>
          /\ HasBearerToken(r)
          /\ CryptoValid(TokenIn(r))
          /\ r.verifierCalls = 1
          /\ r.user.id = TokenIn(r).sub

\* A valid token led to an Identity and an expired one to a 401.
C2_Witness ==
    \E i, j \in ReqIds :
       /\ requests[i].user.attached
       /\ HasBearerToken(requests[j])
       /\ TokenIn(requests[j]).time = "expired"
       /\ requests[j].pc = "done" /\ StatusOf(requests[j]) = 401
       /\ ~requests[j].user.attached

\* C3: a correctly signed, unexpired token that lacks one of the claims
\* sub, email, alias, or carries one that is not a string, never gets an
\* Identity and is answered 401.
C3_InvalidClaimsRejected ==
    \A i \in ReqIds :
       LET r == requests[i] IN
       (/\ HasBearerToken(r)
        /\ CryptoValid(TokenIn(r))
        /\ \/ ~IsString(TokenIn(r).sub)
           \/ ~IsString(TokenIn(r).email)
           \/ ~IsString(TokenIn(r).alias))
          => /\ ~r.user.attached
             /\ r.pc = "done" => StatusOf(r) = 401

\* C4: every request whose verification failed got the same response, a
\* 401, whichever check failed.
C4_FailuresIndistinguishable ==
    \A i, j \in ReqIds :
       (VerifierFailed(requests[i]) /\ VerifierFailed(requests[j]))
          => /\ requests[i].resp = requests[j].resp
             /\ Len(requests[i].resp) = 1
             /\ StatusOf(requests[i]) = 401

\* Two requests failed verification for different reasons: one token was
\* expired, the other tampered with.
C4_Witness ==
    \E i, j \in ReqIds :
       /\ VerifierFailed(requests[i]) /\ VerifierFailed(requests[j])
       /\ HasBearerToken(requests[i]) /\ TokenIn(requests[i]).time = "expired"
       /\ HasBearerToken(requests[j]) /\ TokenIn(requests[j]).sig = "tampered"

\* C5: a request whose Authorization header is absent, does not start with
\* 'Bearer ' or has an empty token is answered 401 and the verifier is not
\* invoked for it.
C5_NoVerifierWithoutToken ==
    \A i \in ReqIds :
       LET r == requests[i] IN
       (\/ HeaderRejected(r.header)
        \/ BearerField(r.header.parts) = <<>>)
          => /\ r.verifierCalls = 0
             /\ r.pc = "done" /\ Len(r.resp) = 1 /\ StatusOf(r) = 401

\* C6: the server listens, and a request is served, only if the discovered
\* algorithm list contains RS256; once a list without RS256 was discovered
\* the process has exited with code 1 and served no request.
C6_PolicyGuardGatesStartup ==
    /\ (startup = "listening" \/ requests # <<>>)
          => /\ metadata.fetched
             /\ \E k \in 1..Len(metadata.algs) : metadata.algs[k] = "RS256"
    /\ (metadata.fetched /\ \A k \in 1..Len(metadata.algs) : metadata.algs[k] # "RS256")
          => startup = "exited" /\ exitCode = 1 /\ requests = <<>>

\* The provider advertised ["HS256"] and the process exited.
C6_Witness ==
    /\ metadata.fetched /\ metadata.algs = <<"HS256">>
    /\ startup = "exited" /\ exitCode = 1

\* C7: the server listens only after discovery succeeded with a response
\* that holds the algorithm list and the key-set location (and the store
\* check succeeded); otherwise the process has exited with code 1.
C7_ListenOnlyAfterDiscovery ==
    /\ startup = "listening"
          => /\ metadata.fetched
             /\ metadata.algsDefined
             /\ metadata.jwksUri # "absent"
    /\ startup \in {"listening", "boot", "discovering", "storecheck"}
          \/ (startup = "exited" /\ exitCode = 1)

\* C8: an add-contact request of an authenticated caller without email, or
\* with an empty one, is answered 400 without lookup and store write.
C8_MissingEmailIs400 ==
    \A i \in ReqIds :
       LET r == requests[i] IN
       (r.route = "POST" /\ r.user.attached /\ ~Truthy(r.rawBody.email))
          => /\ r.pc = "done" /\ Len(r.resp) = 1 /\ StatusOf(r) = 400
             /\ r.lookupCalls = 0 /\ r.storeWrites = 0

\* C9: a request whose lookup was answered not-found is answered 404 and
\* attempts no store write; the step that takes the answer leaves the
\* store unchanged.
C9_NotFoundIs404 ==
    /\ [](\A i \in ReqIds :
            LET r == requests[i] IN
            (r.lookup.kind = "status" /\ r.lookup.status = 404)
               => /\ r.pc = "done"
                  /\ r.resp = <<[status |-> 404,
                                 error |-> "User with that email not found.",
                                 contacts |-> {}]>>
                  /\ r.storeWrites = 0)
    /\ [][\A i \in ReqIds :
            (requests[i].lookup.kind = "none" /\ requests'[i].lookup.status = 404)
               => store' = store]_vars

\* A lookup answered 404 and the request was answered 404.
C9_Witness ==
    \E i \in ReqIds :
       /\ requests[i].lookup.kind = "status" /\ requests[i].lookup.status = 404
       /\ requests[i].pc = "done" /\ StatusOf(requests[i]) = 404

\* C10: a request whose lookup failed other than with not-found is answered
\* 500 with the one generic message and attempts no store write; no
\* request issues the lookup more than once.
C10_UpstreamFailureIs500 ==
    \A i \in ReqIds :
       LET r == requests[i] IN
       /\ r.lookupCalls <= 1
       /\ (\/ r.lookup.kind = "network"
           \/ r.lookup.kind = "status" /\ r.lookup.status # 404)
             => /\ r.pc = "done"
                /\ r.resp = <<[status |-> 500,
                               error |-> "An internal error occurred while adding the contact.",
                               contacts |-> {}]>>
                /\ r.storeWrites = 0
                /\ r.lookupCalls = 1

\* One lookup failed on the network and one with status 500; both requests
\* were answered 500.
C10_Witness ==
    \E i, j \in ReqIds :
       /\ requests[i].lookup.kind = "network" /\ StatusOf(requests[i]) = 500
       /\ requests[j].lookup.kind = "status" /\ requests[j].lookup.status = 500
       /\ StatusOf(requests[j]) = 500

\* A finished request that was answered with the given status
Answered(r, code) == r.resp # <<>> /\ StatusOf(r) = code

\* C11: an add-contact request is answered 201 only when its store write
\* succeeded, with the Contact the provider returned as body; a failed write
\* is answered 500. At the step that sends the 201 the owner's collection
\* holds the document of that Contact, and a list by the same caller that is
\* served afterwards returns the Contact (as long as no other add of the
\* same contact id by that caller has replaced the document).
C11_CreatedOnlyAfterWrite ==
    /\ [](\A i \in ReqIds :
            LET r == requests[i] IN
            /\ Answered(r, 201)
                 => /\ r.route = "POST"
                    /\ r.lookup.kind = "ok"
                    /\ r.storeWrites = 1
                    /\ r.storeResult = "ok"
                    /\ r.resp = <<[status |-> 201, error |-> "",
                                   contacts |-> {r.lookup.contact}]>>
            /\ (r.route = "POST" /\ r.storeResult = "failed")
                 => r.resp = <<[status |-> 500,
                                error |-> "An internal error occurred while adding the contact.",
                                contacts |-> {}]>>)
    /\ [][\A i \in ReqIds :
            (requests[i].pc = "writing" /\ requests'[i].pc = "done")
               => IF StatusOf(requests'[i]) = 201
                  THEN \E d \in store' :
                          /\ d.owner = requests[i].user.id.v
                          /\ d.docId = requests[i].lookup.contact.id.v
                          /\ d.alias = requests[i].lookup.contact.alias
                          /\ d.email = requests[i].lookup.contact.email
                  ELSE store' = store]_vars
    /\ [][\A j \in ReqIds :
            (requests[j].pc = "reading" /\ Answered(requests'[j], 200))
               => \A i \in ReqIds :
                     (/\ Answered(requests[i], 201)
                      /\ requests[i].user.id = requests[j].user.id
                      /\ ~\E k \in ReqIds \ {i} :
                            /\ Answered(requests[k], 201)
                            /\ requests[k].user.id = requests[i].user.id
                            /\ requests[k].lookup.contact.id
                                 = requests[i].lookup.contact.id)
                        => requests[i].lookup.contact
                              \in requests'[j].resp[1].contacts]_vars

\* An add was answered 201 and a list by the same caller returned the
\* added Contact.
C11_Witness ==
    \E i, j \in ReqIds :
       /\ Answered(requests[i], 201)
       /\ requests[j].route = "GET" /\ Answered(requests[j], 200)
       /\ requests[j].user.id = requests[i].user.id
       /\ requests[i].lookup.contact \in requests[j].resp[1].contacts

\* The documents of one owner's collection stored under one contact id
DocsAt(docs, ownerId, contactId) ==
    {d \in docs : d.owner = ownerId /\ d.docId = contactId}

\* C12: add-contact is idempotent on the contact id. The owner's collection
\* never holds two documents for one contact id, it holds exactly one for
\* every contact id the owner added successfully, and a successful add
\* leaves at that id the field values of that add and leaves every other
\* document alone.
C12_AddIdempotentOnContactId ==
    /\ [](/\ \A d1, d2 \in store :
               (d1.owner = d2.owner /\ d1.docId = d2.docId) => d1 = d2
          /\ \A i \in ReqIds :
               Answered(requests[i], 201)
                  => Cardinality(DocsAt(store, requests[i].user.id.v,
                                        requests[i].lookup.contact.id.v)) = 1)
    /\ [][\A i \in ReqIds :
            (requests[i].pc = "writing" /\ Answered(requests'[i], 201))
               => LET o == requests[i].user.id.v
                      c == requests[i].lookup.contact
                  IN /\ DocsAt(store', o, c.id.v)
                          = {[owner |-> o, docId |-> c.id.v, alias |-> c.alias,
                              email |-> c.email, userId |-> c.id]}
                     /\ store' \ DocsAt(store', o, c.id.v)
                          = store \ DocsAt(store, o, c.id.v)]_vars

\* One owner added the same contact id twice with different field values;
\* the collection holds one document for it.
C12_Witness ==
    \E i, j \in ReqIds :
       /\ i # j
       /\ Answered(requests[i], 201) /\ Answered(requests[j], 201)
       /\ requests[i].user.id = requests[j].user.id
       /\ requests[i].lookup.contact.id = requests[j].lookup.contact.id
       /\ requests[i].lookup.contact.alias # requests[j].lookup.contact.alias
       /\ Cardinality(DocsAt(store, requests[i].user.id.v,
                             requests[i].lookup.contact.id.v)) = 1

\* C13: a list whose store read succeeded is answered 200 with exactly the
\* documents stored under the caller's own identifier at the time of the
\* read, each {alias, email, userId} mapped to {id: userId, email, alias};
\* an empty collection gives 200 with an empty array. The read changes
\* nothing in the store.
C13_ListReturnsOwnContacts ==
    /\ [](\A i \in ReqIds :
            LET r == requests[i] IN
            (r.route = "GET" /\ r.storeResult = "ok")
               => /\ r.pc = "done"
                  /\ Len(r.resp) = 1
                  /\ r.resp[1].status = 200
                  /\ r.resp[1].error = "")
    /\ [][\A i \in ReqIds :
            (requests[i].pc = "reading" /\ requests'[i].storeResult = "ok")
               => /\ requests'[i].resp[1].contacts
                       = {[id |-> d.userId, email |-> d.email, alias |-> d.alias] :
                             d \in {x \in store :
                                       x.owner = requests[i].user.id.v}}
                  /\ ({x \in store : x.owner = requests[i].user.id.v} = {}
                         => requests'[i].resp[1].contacts = {})
                  /\ store' = store]_vars

\* A list was answered 200 with a stored contact of the caller.
C13_Witness ==
    \E i \in ReqIds :
       /\ requests[i].route = "GET"
       /\ Answered(requests[i], 200)
       /\ \E d \in store :
             /\ d.owner = requests[i].user.id.v
             /\ [id |-> d.userId, email |-> d.email, alias |-> d.alias]
                   \in requests[i].resp[1].contacts

\* C14 as stated: the process does not get past startup when the project
\* identifier, the provider base URL, the internal-service credential (jwks
\* version) or the listening port is absent.
C14_AnyMissingValueFailsStartup ==
    LET named == {"PORT", "GCP_PROJECT_ID", "IDENTITY_SERVICE_URL"}
                 \cup (IF deployment = "jwks" THEN {"INTERNAL_API_KEY"} ELSE {})
    IN ~(named \subseteq env) => startup \in {"boot", "exited"}

\* C14, amended: the process exits with an error before any other startup
\* step, and never listens, when the project identifier, the provider base
\* URL or the version's credential (internal API key in the jwks version,
\* JWT secret in the legacy version) is absent; the listening port is not
\* among the values whose absence stops the start.
C14_MissingSecretFailsStartup ==
    LET secrets == IF deployment = "jwks"
                   THEN {"GCP_PROJECT_ID", "IDENTITY_SERVICE_URL", "INTERNAL_API_KEY"}
                   ELSE {"GCP_PROJECT_ID", "IDENTITY_SERVICE_URL", "JWT_SECRET"}
    IN ~(secrets \subseteq env)
          => /\ startup \in {"boot", "exited"}
             /\ startup = "exited" => exitCode = 1
             /\ metadata = NoMetadata
             /\ requests = <<>>

\* The jwks version ran without its internal API key, with everything else
\* set, and exited with an error.
C14_Witness ==
    /\ deployment = "jwks"
    /\ env = {"PORT", "GCP_PROJECT_ID", "IDENTITY_SERVICE_URL"}
    /\ startup = "exited"
    /\ exitCode = 1

\* The document a successful add of request r writes
DocOf(r) ==
    [owner |-> r.user.id.v, docId |-> r.lookup.contact.id.v,
     alias |-> r.lookup.contact.alias, email |-> r.lookup.contact.email,
     userId |-> r.lookup.contact.id]

\* C15: under every interleaving of add-contact requests, every stored
\* document is, in all its fields, the document of one single successful
\* write; no (owner, contact id) has a second document; and a write that
\* lands where another request's document already is replaces it as a whole
\* (last write wins).
C15_ConcurrentAddsLastWriteWins ==
    /\ [](/\ \A d \in store :
               \E i \in ReqIds :
                  Answered(requests[i], 201) /\ d = DocOf(requests[i])
          /\ \A d1, d2 \in store :
               (d1.owner = d2.owner /\ d1.docId = d2.docId)
                  => (d1.alias = d2.alias /\ d1.email = d2.email
                      /\ d1.userId = d2.userId))
    /\ [][\A i, j \in ReqIds :
            (/\ i # j
             /\ requests[i].pc = "writing" /\ Answered(requests'[i], 201)
             /\ Answered(requests[j], 201)
             /\ DocOf(requests[j]).owner = DocOf(requests[i]).owner
             /\ DocOf(requests[j]).docId = DocOf(requests[i]).docId)
               => /\ DocOf(requests[i]) \in store'
                  /\ (DocOf(requests[j]) # DocOf(requests[i])
                         => DocOf(requests[j]) \notin store')]_vars

\* Two adds of one owner resolved to the same contact id with different
\* field values, and the write of the request that arrived first landed
\* last: the store holds its document.
C15_Witness ==
    \E i, j \in ReqIds :
       /\ i < j
       /\ Answered(requests[i], 201) /\ Answered(requests[j], 201)
       /\ DocOf(requests[i]).owner = DocOf(requests[j]).owner
       /\ DocOf(requests[i]).docId = DocOf(requests[j]).docId
       /\ DocOf(requests[i]).alias # DocOf(requests[j]).alias
       /\ DocOf(requests[i]).email # DocOf(requests[j]).email
       /\ DocOf(requests[i]) \in store
       /\ DocOf(requests[j]) \notin store

\* C16: a request whose token is signed with a key that is not in the
\* provider's key set never gets an Identity and makes no store or provider
\* call; once its verification has settled (key-set refetch included) it is
\* answered 401. The key set never holds a key that is not the provider's,
\* and the process stays up: it is listening whenever requests exist and
\* keeps listening.
C16_UnknownKeyRejected ==
    /\ [](/\ \A i \in ReqIds :
               LET r == requests[i] IN
               (HasBearerToken(r) /\ TokenIn(r).key # "issuer")
                  => /\ ~r.user.attached
                     /\ r.storeReads = 0 /\ r.storeWrites = 0 /\ r.lookupCalls = 0
                     /\ r.pc \in {"verifying", "done"}
                     /\ r.pc = "done"
                          => r.resp = <<[status |-> 401,
                                         error |-> "Unauthorized: Invalid or expired token.",
                                         contacts |-> {}]>>
          /\ jwksCache \subseteq {"issuer"}
          /\ requests # <<>> => (startup = "listening" /\ exitCode = -1))
    /\ [][startup = "listening" => (startup' = "listening" /\ exitCode' = -1)]_vars

\* In the jwks version a token signed with a foreign key was answered 401
\* after the key set was fetched, and a request that arrived after it was
\* served 200.
C16_Witness ==
    \E i, j \in ReqIds :
       /\ deployment = "jwks"
       /\ i < j
       /\ HasBearerToken(requests[i]) /\ TokenIn(requests[i]).key = "foreign"
       /\ requests[i].verifierCalls = 1
       /\ Answered(requests[i], 401)
       /\ jwksCache = {"issuer"}
       /\ requests[j].user.attached /\ Answered(requests[j], 200)
       /\ startup = "listening"

\* How many outbound calls a request at this position can still await
Rank(pc) ==
    IF pc = "done" THEN 0
    ELSE IF pc \in {"writing", "reading"} THEN 1
    ELSE IF pc = "lookup" THEN 2
    ELSE 3

\* C17: every request gets exactly one response. A request holds at most
\* one response, it is finished exactly when it holds one, and the status is
\* one of 200, 201, 400, 401, 404, 500. A request that is not finished is
\* waiting for the return of one outbound call (verification, lookup, store
\* write or store read: the positions that enable VerifyReturn, LookupReturn,
\* StoreWriteReturn and StoreReadReturn), and every step of a request takes it closer to its
\* response: it is answered after at most three returns, and nothing
\* happens to it once it is answered. When every outbound call eventually
\* returns or fails, every request that arrived is eventually answered.
C17_ExactlyOneResponse ==
    /\ [](\A i \in ReqIds :
            LET r == requests[i] IN
            /\ Len(r.resp) <= 1
            /\ r.pc = "done" <=> Len(r.resp) = 1
            /\ r.pc \in {"done", "verifying", "lookup", "writing", "reading"}
            /\ r.resp # <<>> => r.resp[1].status \in {200, 201, 400, 401, 404, 500})
    /\ [][\A i \in ReqIds :
            requests'[i] # requests[i]
               => Rank(requests'[i].pc) < Rank(requests[i].pc)]_vars
    /\ \A i \in 1..MaxLiveRequests :
          [](Len(requests) >= i
               => <>(Len(requests) >= i /\ Len(requests[i].resp) = 1))

\* An add went through verification, lookup and store write, each called
\* once, and holds exactly one response, 201.
C17_Witness ==
    \E i \in ReqIds :
       /\ requests[i].verifierCalls = 1
       /\ requests[i].lookupCalls = 1
       /\ requests[i].storeWrites = 1
       /\ requests[i].pc = "done"
       /\ Len(requests[i].resp) = 1
       /\ requests[i].resp[1].status = 201

\* C18: startup ends (listening or exited) and every request that arrived
\* is answered, even when the provider never answers a call.
C18_NoCallBlocksForever ==
    /\ <>(startup \in {"listening", "exited", "returned"})
    /\ \A i \in 1..MaxLiveRequests :
          [](Len(requests) >= i
               => <>(Len(requests) >= i /\ requests[i].pc = "done"))

\* C19: owner isolation. The Identity of a request carries the subject of
\* that request's own token; every stored document sits under the token
\* subject of a request whose add succeeded; a write step adds or removes
\* documents only under the token subject of the writing request, so every
\* other user's collection is unchanged; a list returns only contacts of
\* documents under the token subject of the listing request; and the store
\* changes in no other step.
C19_OwnerIsolation ==
    /\ [](/\ \A i \in ReqIds :
               requests[i].user.attached
                  => /\ HasBearerToken(requests[i])
                     /\ requests[i].user.id = TokenIn(requests[i]).sub
          /\ \A d \in store :
               \E i \in ReqIds :
                  /\ Answered(requests[i], 201)
                  /\ d.owner = TokenIn(requests[i]).sub.v)
    /\ [][\A i \in ReqIds :
            (requests[i].pc = "writing" /\ requests'[i].pc = "done")
               => \A d \in (store' \ store) \cup (store \ store') :
                     d.owner = TokenIn(requests[i]).sub.v]_vars
    /\ [][\A i \in ReqIds :
            (requests[i].pc = "reading" /\ requests'[i].pc = "done")
               => \A c \in requests'[i].resp[1].contacts :
                     \E d \in store :
                        /\ d.owner = TokenIn(requests[i]).sub.v
                        /\ c = [id |-> d.userId, email |-> d.email,
                                alias |-> d.alias]]_vars
    /\ [][store' # store
            => \E i \in ReqIds :
                  requests[i].pc = "writing" /\ requests'[i].pc = "done"]_vars

\* Callers uA and uB each added a contact with the same id; the store holds
\* one document under each of them and none under anyone else.
C19_Witness ==
    \E i, j \in ReqIds :
       /\ Answered(requests[i], 201) /\ Answered(requests[j], 201)
       /\ HasBearerToken(requests[i]) /\ HasBearerToken(requests[j])
       /\ TokenIn(requests[i]).sub = JStr("uA")
       /\ TokenIn(requests[j]).sub = JStr("uB")
       /\ requests[i].lookup.contact.id = requests[j].lookup.contact.id
       /\ {d.owner : d \in store} = {"uA", "uB"}
       /\ Cardinality(store) = 2

\* C20: every stored contact document is in the owner's contact collection
\* under the contact id as its document identifier, holds a value for each
\* of alias, email and userId, and its userId equals the identifier it is
\* keyed by, whatever body the provider's successful lookup returned.
C20_DocumentKeyedByOwnUserId ==
    \A d \in store :
       /\ d.owner # ""
       /\ Len(Segments(d.docId)) = 1
       /\ d.alias.t # "undefined"
       /\ d.email.t # "undefined"
       /\ d.userId = JStr(DocumentId(d.docId))

=============================================================================
